---- MODULE Spec2Model ----
\* A model of SiteScraper (scraper.py): the crawl loop of scrape_site, the URL
\* filter _is_valid_url, the content gate of _save_markdown and the index
\* written by _create_index.
\*
\* Representation of strings.
\*   A URL is the sequence of its lexical tokens, e.g.
\*   <<"https://", "example.com", "/", "brochure", ".pdf", "?dl=1">>.  The string
\*   operations of the code (urlparse, endswith, "in", lower, strip, replace) are
\*   computed token by token; the tokens of the universe below are chosen so that
\*   no pattern the code looks for straddles two tokens.
\*   A markdown text is the sequence of its lines (what split('\n') returns);
\*   joining two texts with '\n' is then the concatenation of their line lists.
EXTENDS Integers, Sequences, FiniteSets, TLC

VARIABLES
    base_url,       \* self.base_url
    domain,         \* self.domain
    language,       \* self.language ("" when no language is configured)
    max_pages,      \* argument of scrape_site: <<>> is None, <<n>> is the number n
    visited_urls,   \* self.visited_urls
    urls_to_visit,  \* self.urls_to_visit (deque, left end first)
    page_count,     \* local of scrape_site
    current_url,    \* local of scrape_site (<<>> before the first pop)
    content,        \* the text last handed to _save_markdown
    files,          \* the files under output/ that have been written
    index_content,  \* the URLs listed by _create_index, in the order listed
    index_calls,    \* how many times _create_index has been called
    faulted,        \* history: the URLs whose processing has raised
    outcome,        \* which branch the last step took
    pc              \* "loop": in the while loop, "index": loop left, "done", "raised"

vars == <<base_url, domain, language, max_pages, visited_urls, urls_to_visit,
          page_count, current_url, content, files, index_content, index_calls,
          faulted, outcome, pc>>

-----------------------------------------------------------------------------
\* Bounds of the model.

\* The largest number of anchors a rendered page carries.
MaxLinks == 2
\* The longest work queue a rendered page's links may lead to.
MaxQueue == 3
\* The largest page budget tried (max_pages ranges over None and 0..MaxBudget).
MaxBudget == 2

\* Program constants.
PreambleLines == 2
MinContentChars == 100
MinLinkTextChars == 5

-----------------------------------------------------------------------------
\* The universe of URLs.

Home      == <<"https://", "example.com", "/">>
About     == <<"https://", "example.com", "/", "about">>
EnDocs    == <<"https://", "example.com", "/", "EN", "/", "docs">>
Pdf       == <<"https://", "example.com", "/", "brochure", ".pdf">>
PdfQuery  == <<"https://", "example.com", "/", "brochure", ".pdf", "?dl=1">>
Fragment  == <<"https://", "example.com", "/", "about", "#team">>
Foreign   == <<"https://", "other.org", "/">>
Share     == <<"https://", "example.com", "/", "share", "?u=facebook.com">>

\* Every href an anchor of a rendered page may carry, in ascending string order
\* (the order of Python's sorted() on the strings the token lists stand for).
UrlOrder == <<Home, EnDocs, About, Fragment, Pdf, PdfQuery, Share, Foreign>>

Hrefs == {UrlOrder[i] : i \in 1..Len(UrlOrder)}

BaseUrls == {Home}
Languages == {"", "en"}

QueryTokens == {"?dl=1", "?u=facebook.com"}
FragmentTokens == {"#team"}
\* The tokens that contain one of the patterns of line 93.
SocialTokens == {"?u=facebook.com"}

-----------------------------------------------------------------------------
\* String helpers.

\* str.lower() of a token.
Lower(t) == CASE t = "EN" -> "en"
              [] OTHER -> t

LowerAll(s) == [i \in 1..Len(s) |-> Lower(s[i])]

RECURSIVE Concat(_)
Concat(s) == IF s = <<>> THEN "" ELSE Head(s) \o Concat(Tail(s))

\* The string a URL's token list stands for.
UrlStr(url) == Concat(url)

StartsWith(s, p) == Len(s) >= Len(p) /\ SubSeq(s, 1, Len(p)) = p

\* urlparse(url).netloc
Netloc(url) == IF Len(url) >= 2 THEN url[2] ELSE ""

\* urlparse(url).path: what follows the authority, up to the query or fragment.
RECURSIVE PathFrom(_)
PathFrom(s) ==
    IF s = <<>> \/ Head(s) \in QueryTokens \cup FragmentTokens
    THEN <<>>
    ELSE <<Head(s)>> \o PathFrom(Tail(s))

Path(url) == IF Len(url) >= 2 THEN PathFrom(SubSeq(url, 3, Len(url))) ELSE <<>>

-----------------------------------------------------------------------------
\* _is_valid_url

Extensions == {".pdf", ".jpg", ".png", ".gif", ".jpeg", ".doc", ".docx"}

\* any(url.lower().endswith(ext) for ext in [...]): the test is on the whole
\* URL string, so it looks at the last token of the URL, not of its path.
EndsWithExtension(url) == url # <<>> /\ Lower(url[Len(url)]) \in Extensions

\* the language test of lines 97-100
LanguagePathOk(url, lang) ==
    LET url_path == LowerAll(Path(url))
    IN  \/ StartsWith(url_path, <<"/", Lower(lang), "/">>)
        \/ url_path = <<"/", Lower(lang)>>

\* A filter that looks at the authority only.
is_valid_url_domain_only(url, dom, lang) == url # <<>> /\ Netloc(url) = dom

is_valid_url(url, dom, lang) ==
    /\ url # <<>>
    /\ Netloc(url) = dom
    /\ \A i \in 1..Len(url) : url[i] \notin FragmentTokens
    /\ ~EndsWithExtension(url)
    /\ \A i \in 1..Len(url) : Lower(url[i]) \notin SocialTokens
    /\ (lang # "" => LanguagePathOk(url, lang))

\* _extract_links: the set of the valid hrefs among the anchors of the page.
extract_links(hrefs, dom, lang) == {h \in hrefs : is_valid_url(h, dom, lang)}

-----------------------------------------------------------------------------
\* File names.

RECURSIVE StripLeading(_, _)
StripLeading(s, t) ==
    IF s # <<>> /\ Head(s) = t THEN StripLeading(Tail(s), t) ELSE s

RECURSIVE StripTrailing(_, _)
StripTrailing(s, t) ==
    IF s # <<>> /\ s[Len(s)] = t
    THEN StripTrailing(SubSeq(s, 1, Len(s) - 1), t)
    ELSE s

\* urlparse(url).path.strip('/').replace('/', '_') or 'index', as tokens
Filename(url) ==
    LET stripped == StripTrailing(StripLeading(Path(url), "/"), "/")
        replaced == [i \in 1..Len(stripped) |->
                        IF stripped[i] = "/" THEN "_" ELSE stripped[i]]
    IN  IF replaced = <<>> THEN <<"index">> ELSE replaced

HostileTokens == {"<", ">", ":", "\"", "/", "\\", "|", "?", "*"}

\* re.sub(r'[<>:"/\\|?*]', '_', filename)
Sanitize(filename) ==
    [i \in 1..Len(filename) |->
        IF filename[i] \in HostileTokens THEN "_" ELSE filename[i]]

\* output_dir / f"{filename}.md"
FilePath(filename, lang) ==
    "output/" \o (IF lang # "" THEN lang \o "/" ELSE "")
              \o Concat(Sanitize(filename)) \o ".md"

-----------------------------------------------------------------------------
\* _clean_text and _create_markdown_content

\* The texts of the universe hold no inner whitespace runs and no markdown
\* control characters, so cleaning only trims them.
clean_text(text) == CASE text = " Home " -> "Home"
                      [] text = "  " -> ""
                      [] OTHER -> text

HeadingTags == {"h1", "h2", "h3", "h4", "h5", "h6"}

Hashes(tag) == CASE tag = "h1" -> "#"
                 [] tag = "h2" -> "##"
                 [] tag = "h3" -> "###"
                 [] tag = "h4" -> "####"
                 [] tag = "h5" -> "#####"
                 [] tag = "h6" -> "######"

\* A text ending in '\n' is a line followed by an empty line.
Block(line) == <<line, "">>

\* lines 178-194: the block of one displayed text element
ElementBlock(e) ==
    LET text == clean_text(e.text)
    IN  IF text = "" THEN <<>>
        ELSE IF e.tag \in HeadingTags THEN Block(Hashes(e.tag) \o " " \o text)
        ELSE IF e.tag = "li" THEN Block("- " \o text)
        ELSE Block(text)

\* lines 200-205: the block of one displayed button or anchor
ButtonBlock(b) ==
    LET text == clean_text(b.text)
    IN  IF text # "" /\ Len(text) > MinLinkTextChars
        THEN Block("_" \o text \o "_")
        ELSE <<>>

RECURSIVE Blocks(_, _)
Blocks(es, isButton) ==
    IF es = <<>> THEN <<>>
    ELSE (IF isButton THEN ButtonBlock(Head(es)) ELSE ElementBlock(Head(es)))
         \o Blocks(Tail(es), isButton)

\* The text is '\n'.join(content): joining texts with '\n' concatenates their
\* line lists.  page.elements are the displayed text elements that pass the
\* parent test of line 174, page.buttons the displayed buttons and anchors.
create_markdown_content(url, page) ==
    (IF page.title # "" THEN Block("# " \o clean_text(page.title)) ELSE <<>>)
    \o Block("*Original URL: " \o UrlStr(url) \o "*")
    \o Blocks(page.elements, FALSE)
    \o Blocks(page.buttons, TRUE)

-----------------------------------------------------------------------------
\* _save_markdown

\* str.strip() of a text whose lines carry no leading or trailing whitespace:
\* the leading and the trailing empty lines go.
StripText(text) ==
    LET s == StripTrailing(StripLeading(text, ""), "")
    IN  IF s = <<>> THEN <<"">> ELSE s

RECURSIVE SumLen(_)
SumLen(ls) == IF ls = <<>> THEN 0 ELSE Len(Head(ls)) + SumLen(Tail(ls))

\* len() of a text: its lines and the '\n' between them
TextLen(text) == SumLen(text) + (Len(text) - 1)

\* lines 240-249: TRUE when _save_markdown goes on to write the file
Qualifies(text) ==
    LET content_lines == StripText(text)
    IN  /\ Len(content_lines) > PreambleLines
        /\ LET actual_content ==
                   SubSeq(content_lines, PreambleLines + 1, Len(content_lines))
           IN  TextLen(StripText(actual_content)) >= MinContentChars

-----------------------------------------------------------------------------
\* _create_index

\* sorted(self.visited_urls)
Sorted(urls) == SelectSeq(UrlOrder, LAMBDA u : u \in urls)

IndexLine(url, lang) ==
    "- [" \o UrlStr(url) \o "]("
          \o (IF lang # "" THEN "output/" \o lang ELSE "output")
          \o "/" \o Concat(Filename(url)) \o ".md)"

IndexText(urls, lang) ==
    Block("# Site Content Index")
    \o [i \in 1..Len(Sorted(urls)) |-> IndexLine(Sorted(urls)[i], lang)]

IndexFilename(lang) ==
    IF lang # "" THEN <<"site_index_", lang>> ELSE <<"site_index">>

-----------------------------------------------------------------------------
\* What the renderer may return.

\* Texts of 10, 40, 70 and 150 characters.
X10 == "xxxxxxxxxx"
X40 == X10 \o X10 \o X10 \o X10
X70 == X40 \o X10 \o X10 \o X10
X150 == X70 \o X70 \o X10

P(text) == [tag |-> "p", text |-> text]

\* A stub page, a short titled page, and a titled page with a heading, a list,
\* a blank span and two anchors.
Pages == {
    [title |-> "", elements |-> <<P(X10)>>, buttons |-> <<>>],
    [title |-> " Home ", elements |-> <<P(X70)>>, buttons |-> <<>>],
    [title |-> " Home ",
     elements |-> <<[tag |-> "h2", text |-> "About"], P(X150),
                    [tag |-> "li", text |-> X40], [tag |-> "span", text |-> "  "]>>,
     buttons |-> <<[text |-> "Read more"], [text |-> "Go"]>>]
}

\* The hrefs of the anchors of a page.
HrefSets == {hs \in SUBSET Hrefs : Cardinality(hs) <= MaxLinks}

\* The orders in which "for link in new_links" may go through a set.
Orderings(S) ==
    {o \in [1..Cardinality(S) -> S] : \A x \in S : \E i \in DOMAIN o : o[i] = x}

Budgets == {<<>>} \cup {<<n>> : n \in 0..MaxBudget}

-----------------------------------------------------------------------------
\* __init__ (lines 19-26), followed by the entry into scrape_site (line 287).

Init ==
    /\ base_url \in BaseUrls
    /\ domain = Netloc(base_url)
    /\ language \in Languages
    /\ max_pages \in Budgets
    /\ visited_urls = {}
    /\ urls_to_visit = <<base_url>>
    /\ page_count = 0
    /\ current_url = <<>>
    /\ content = <<"">>
    /\ files = {}
    /\ index_content = <<>>
    /\ index_calls = 0
    /\ faulted = {}
    /\ outcome = "start"
    /\ pc = "loop"

config == <<base_url, domain, language, max_pages>>

\* The loop condition with the budget test off by one.
LoopCondOffByOne ==
    /\ urls_to_visit # <<>>
    /\ (IF max_pages = <<>> THEN TRUE ELSE page_count <= max_pages[1])

\* line 289: the condition of the while loop
LoopCond ==
    /\ urls_to_visit # <<>>
    /\ (IF max_pages = <<>> THEN TRUE ELSE page_count < max_pages[1])

\* The links appended without the test of line 313.
EnqueueUnchecked(queue, visited, order) == queue \o order

\* lines 312-314: the links appended, in the order the set is gone through
Enqueue(queue, visited, order) ==
    queue \o SelectSeq(order, LAMBDA link : link \notin visited)

\* lines 290-293: the popped URL has been visited already
ScrapeStale ==
    /\ pc = "loop" /\ LoopCond
    /\ Head(urls_to_visit) \in visited_urls
    /\ current_url' = Head(urls_to_visit)
    /\ urls_to_visit' = Tail(urls_to_visit)
    /\ outcome' = "stale"
    /\ UNCHANGED <<config, visited_urls, page_count, content, files,
                   index_content, index_calls, faulted, pc>>

\* A handler that counts the page whose rendering raised.
ScrapeRenderFaultCounted ==
    /\ pc = "loop" /\ LoopCond
    /\ Head(urls_to_visit) \notin visited_urls
    /\ current_url' = Head(urls_to_visit)
    /\ urls_to_visit' = Tail(urls_to_visit)
    /\ page_count' = page_count + 1
    /\ faulted' = faulted \cup {Head(urls_to_visit)}
    /\ outcome' = "render_fault"
    /\ UNCHANGED <<config, visited_urls, content, files,
                   index_content, index_calls, pc>>

\* A handler that puts the URL whose rendering raised back at the end of the queue.
ScrapeRenderFaultRetry ==
    /\ pc = "loop" /\ LoopCond
    /\ Head(urls_to_visit) \notin visited_urls
    /\ current_url' = Head(urls_to_visit)
    /\ urls_to_visit' = Tail(urls_to_visit) \o <<Head(urls_to_visit)>>
    /\ faulted' = faulted \cup {Head(urls_to_visit)}
    /\ outcome' = "render_fault"
    /\ UNCHANGED <<config, visited_urls, page_count, content, files,
                   index_content, index_calls, pc>>

\* lines 299, 319-321: driver.get raises
ScrapeRenderFault ==
    /\ pc = "loop" /\ LoopCond
    /\ Head(urls_to_visit) \notin visited_urls
    /\ current_url' = Head(urls_to_visit)
    /\ urls_to_visit' = Tail(urls_to_visit)
    /\ faulted' = faulted \cup {Head(urls_to_visit)}
    /\ outcome' = "render_fault"
    /\ UNCHANGED <<config, visited_urls, page_count, content, files,
                   index_content, index_calls, pc>>

\* lines 299-304, 254, 319-321: the page is rendered and its text qualifies, and
\* output_dir.mkdir raises inside _save_markdown
ScrapeSaveFault ==
    /\ pc = "loop" /\ LoopCond
    /\ Head(urls_to_visit) \notin visited_urls
    /\ \E page \in Pages :
        /\ content' = create_markdown_content(Head(urls_to_visit), page)
        /\ Qualifies(content')
    /\ current_url' = Head(urls_to_visit)
    /\ urls_to_visit' = Tail(urls_to_visit)
    /\ faulted' = faulted \cup {Head(urls_to_visit)}
    /\ outcome' = "save_fault"
    /\ UNCHANGED <<config, visited_urls, page_count, files,
                   index_content, index_calls, pc>>

\* lines 299-317: the page is rendered, its text is handed to _save_markdown
\* (written, skipped, or not written because open() fails), the URL is marked
\* visited and the valid links of the page are appended
ScrapePage ==
    /\ pc = "loop" /\ LoopCond
    /\ Head(urls_to_visit) \notin visited_urls
    /\ current_url' = Head(urls_to_visit)
    /\ \E page \in Pages :
        /\ content' = create_markdown_content(Head(urls_to_visit), page)
        /\ IF ~Qualifies(content')
           THEN files' = files /\ outcome' = "skipped"
           ELSE \/ /\ files' = files
                        \cup {FilePath(Filename(Head(urls_to_visit)), language)}
                   /\ outcome' = "saved"
                \/ files' = files /\ outcome' = "failed"
    /\ visited_urls' = visited_urls \cup {Head(urls_to_visit)}
    /\ page_count' = page_count + 1
    /\ \E hrefs \in HrefSets :
        \E order \in Orderings(extract_links(hrefs, domain, language)) :
            /\ urls_to_visit' = Enqueue(Tail(urls_to_visit), visited_urls', order)
            /\ Len(urls_to_visit') <= MaxQueue
    /\ UNCHANGED <<config, index_content, index_calls, faulted, pc>>

\* line 289: the condition of the while loop is false
LoopExit ==
    /\ pc = "loop" /\ ~LoopCond
    /\ pc' = "index"
    /\ outcome' = "exit"
    /\ UNCHANGED <<config, visited_urls, urls_to_visit, page_count, current_url,
                   content, files, index_content, index_calls, faulted>>

\* lines 324, 269-283: _create_index hands the index text to _save_markdown,
\* which skips it, writes it, fails to open the file, or raises in mkdir
CreateIndex ==
    /\ pc = "index"
    /\ index_calls' = index_calls + 1
    /\ index_content' = Sorted(visited_urls)
    /\ content' = IndexText(visited_urls, language)
    /\ IF ~Qualifies(content')
       THEN files' = files /\ outcome' = "index_skipped" /\ pc' = "done"
       ELSE \/ /\ files' = files \cup {FilePath(IndexFilename(language), language)}
               /\ outcome' = "index_saved" /\ pc' = "done"
            \/ files' = files /\ outcome' = "index_failed" /\ pc' = "done"
            \/ files' = files /\ outcome' = "index_raised" /\ pc' = "raised"
    /\ UNCHANGED <<config, visited_urls, urls_to_visit, page_count, current_url,
                   faulted>>

Next ==
    \/ ScrapeStale
    \/ ScrapeRenderFault
    \/ ScrapeSaveFault
    \/ ScrapePage
    \/ LoopExit
    \/ CreateIndex

Spec == Init /\ [][Next]_vars

\* A measure of the work left: the position in scrape_site, the queued URLs,
\* and for every URL not yet visited the most links one page can append (a set
\* of hrefs) and the pop that visits it.
Variant ==
    (CASE pc = "loop" -> 2 [] pc = "index" -> 1 [] OTHER -> 0)
    + Len(urls_to_visit)
    + (Cardinality(Hrefs) + 1) * Cardinality((Hrefs \cup {base_url}) \ visited_urls)

TypeOK ==
    /\ visited_urls \subseteq Hrefs
    /\ page_count \in Nat
    /\ pc \in {"loop", "index", "done", "raised"}

-----------------------------------------------------------------------------
\* Vocabulary of the properties.

\* The outcomes of the steps that render a page.
FaultOutcomes == {"render_fault", "save_fault"}
VisitOutcomes == {"saved", "skipped", "failed"}
Finished == pc \in {"done", "raised"}

\* The file a page of this URL is saved to.
OutputFile(url) == FilePath(Filename(url), language)
IndexFile == FilePath(IndexFilename(language), language)

\* How many times a URL stands in a queue.
Count(queue, url) == Cardinality({i \in 1..Len(queue) : queue[i] = url})

HoldsTwice(queue) ==
    \E i, j \in 1..Len(queue) : i < j /\ queue[i] = queue[j]

\* The provenance line of a page, and the text that follows it.
Provenance(url) == "*Original URL: " \o UrlStr(url) \o "*"

PostPreamble(text, url) ==
    LET k == CHOOSE i \in 1..Len(text) : text[i] = Provenance(url)
    IN  StripText(SubSeq(text, k + 1, Len(text)))

\* The path of a URL ends in one of the non-document extensions.
PathEndsWithExtension(url) ==
    Path(url) # <<>> /\ Lower(Path(url)[Len(Path(url))]) \in Extensions

-----------------------------------------------------------------------------
\* C1: when the index has been written, every URL it lists has its page file
\* written by _save_markdown during the crawl.
C1_IndexListsOnlySavedPages ==
    outcome = "index_saved" =>
        \A i \in 1..Len(index_content) : OutputFile(index_content[i]) \in files

C3_IndexFileWritten ==
    (pc = "done" /\ Cardinality(visited_urls) >= 2 /\ outcome # "index_failed")
        => IndexFile \in files

\* C4: a page whose text after the provenance line has fewer than
\* MinContentChars characters is skipped by _save_markdown.
C4_ShortPageSkipped ==
    (outcome \in VisitOutcomes \cup {"save_fault"}
        /\ TextLen(PostPreamble(content, current_url)) < MinContentChars)
        => outcome = "skipped"

\* C5: a URL whose processing has raised is not rendered again.
C5_NoRetry ==
    [][outcome' \in FaultOutcomes \cup VisitOutcomes
          => Head(urls_to_visit) \notin faulted]_vars

\* C6 as claimed: a step in which rendering or processing faults (the write
\* failure that _save_markdown catches included) leaves the visited set and the
\* page count alone and appends nothing to the queue.
C6_AnyFaultLeavesCrawlState ==
    [][outcome' \in FaultOutcomes \cup {"failed"} =>
          /\ visited_urls' = visited_urls
          /\ page_count' = page_count
          /\ urls_to_visit' = Tail(urls_to_visit)]_vars

\* C6 as amended: no faulting step ends the loop or writes a file; a step whose
\* fault reaches the handler of scrape_site leaves the visited set, the page
\* count and the index entries alone and appends nothing to the queue; and
\* once scrape_site is over _create_index has been called.
C6_FaultNotFatal ==
    /\ [][outcome' \in FaultOutcomes \cup {"failed"} =>
            /\ pc' = "loop"
            /\ files' = files
            /\ index_content' = index_content]_vars
    /\ [][outcome' \in FaultOutcomes =>
            /\ visited_urls' = visited_urls
            /\ page_count' = page_count
            /\ urls_to_visit' = Tail(urls_to_visit)]_vars
    /\ [](Finished => index_calls = 1)

\* C6 witness: a URL has raised, other pages were visited after all, and the
\* index has been built.
C6_Witness ==
    /\ pc = "done"
    /\ faulted # {}
    /\ faulted \cap visited_urls = {}
    /\ Cardinality(visited_urls) >= 2
    /\ index_calls = 1

\* C7 as claimed: every URL in the work queue passes the URL filter.
C7_QueueAdmissible ==
    \A i \in 1..Len(urls_to_visit) :
        is_valid_url(urls_to_visit[i], domain, language)

\* C7 as amended: every URL in the work queue other than the seed passes the
\* filter, and under a language constraint every URL rendered other than the
\* seed has a path equal to /lang or beginning with /lang/ (in any case).
C7_NonSeedAdmissible ==
    /\ \A i \in 1..Len(urls_to_visit) :
          urls_to_visit[i] # base_url =>
              /\ is_valid_url(urls_to_visit[i], domain, language)
              /\ Netloc(urls_to_visit[i]) = domain
              /\ (language # "" => LanguagePathOk(urls_to_visit[i], language))
    /\ (language # "" /\ current_url # <<>> /\ current_url # base_url)
          => LanguagePathOk(current_url, language)

\* C7 witness: under a language constraint a URL other than the seed is rendered.
C7_Witness ==
    /\ language # ""
    /\ outcome \in VisitOutcomes
    /\ current_url # base_url

\* C8: no URL whose path ends in a non-document extension is in the work queue.
C8_NoDownloadEnqueued ==
    \A i \in 1..Len(urls_to_visit) : ~PathEndsWithExtension(urls_to_visit[i])

\* C9: the loop is left and _create_index is called once, after it: every step
\* lowers a natural-number measure of the work left, so no run goes on for
\* ever whatever the links, the budget and the faults; inside the loop a step
\* without a fault is always possible; and _create_index has been called once
\* when scrape_site is over, and not before.
C9_Terminates ==
    /\ [][Variant' < Variant]_vars
    /\ [](Variant \in Nat)
    /\ [](pc = "loop" => ENABLED (ScrapeStale \/ ScrapePage \/ LoopExit))
    /\ [](index_calls = IF Finished THEN 1 ELSE 0)

\* C9 witness: an unbounded crawl over a cyclic link graph, with a fault, ends.
C9_Witness ==
    /\ pc = "done"
    /\ max_pages = <<>>
    /\ faulted # {}
    /\ Cardinality(visited_urls) >= 3

\* C10: the page count is the number of visited URLs and stays within the
\* budget; a stale pop and a raising step leave it alone.
C10_PageCount ==
    /\ [](page_count = Cardinality(visited_urls))
    /\ [](IF max_pages = <<>> THEN TRUE ELSE page_count <= max_pages[1])
    /\ [][outcome' \in FaultOutcomes \cup {"stale"}
            => page_count' = page_count]_vars

\* C10 witness: the budget is reached with URLs left in the queue, after a
\* stale pop or a fault.
C10_Witness ==
    /\ pc = "index"
    /\ max_pages # <<>>
    /\ page_count = max_pages[1]
    /\ page_count >= 2
    /\ urls_to_visit # <<>>
    /\ faulted # {}

====
